---- MODULE Spec2Model ----
(***************************************************************************)
(* psaraiva/l02: two HTTP services.  The Edge service (app1) validates a   *)
(* postal code (CEP) from a JSON body and forwards it to the Orchestrator  *)
(* (app2), which validates it again, resolves it to a city with the ViaCEP *)
(* client, resolves the city to a temperature with the WeatherAPI client   *)
(* and answers with the temperature in three scales.                       *)
(*                                                                         *)
(* Strings that are matched character by character (the CEP) are sequences *)
(* of one-character strings.  Messages, URLs, log lines and error texts    *)
(* are sequences of tokens, so that "text X contains text Y" is decidable. *)
(* Temperatures are decimal numbers in hundredths of a degree.             *)
(***************************************************************************)
EXTENDS Integers, Sequences, FiniteSets, TLC

VARIABLES
    pc,             \* where the request in progress is
    edgeReq,        \* the JSON body the client sent to the Edge
    edgeResp,       \* the Edge handler's response
    edgeErr,        \* the error the Edge handler ran into (NoErr when none)
    edgeGot,        \* the response httpClient.Do gave the Edge handler
    wire,           \* the message in flight between Edge and Orchestrator
    orchCep,        \* the cep query parameter the Orchestrator handler read
    orchResp,       \* the Orchestrator handler's response
    addrUp,         \* what the ViaCEP upstream did
    addrRes,        \* what FindAddressByCep returned
    weatherUp,      \* what the WeatherAPI upstream did
    weatherRes,     \* what FindTemperatureByCity returned
    calls,          \* the outbound calls made for the request, in order
    telemetry,      \* span attributes, span errors, span events and log lines
    app2BaseUrlOk,  \* whether APP2_BASE_URL gives a URL that parses
    procs           \* the two processes: where main() is, per service

vars == <<pc, edgeReq, edgeResp, edgeErr, edgeGot, wire, orchCep, orchResp, addrUp,
          addrRes, weatherUp, weatherRes, calls, telemetry, app2BaseUrlOk, procs>>

(***************************************************************************)
(* Bounds                                                                  *)
(***************************************************************************)
\* longest of the short strings sent as a CEP
MaxShort == 1

(***************************************************************************)
(* Characters and postal codes                                             *)
(***************************************************************************)
Digits == {"0", "9"}

\* characters a client may put in a CEP besides digits
OtherChars == {"-", " ", "a", "+"}

Alphabet == Digits \cup OtherChars

\* regextCepPattern = ^[0-9]{5}-[0-9]{3}$ : five digits, a hyphen, three digits
CepDigitsBefore == 5

CepDigitsAfter == 3

IsDigit(c) == c \in {"0", "1", "2", "3", "4", "5", "6", "7", "8", "9"}

\* the match without the end anchor, as a forgotten `$` would give
MatchPrefixOnly(s) ==
    /\ Len(s) >= CepDigitsBefore + 1 + CepDigitsAfter
    /\ \A i \in 1..CepDigitsBefore : IsDigit(s[i])
    /\ s[CepDigitsBefore + 1] = "-"
    /\ \A i \in (CepDigitsBefore + 2)..(CepDigitsBefore + 1 + CepDigitsAfter) : IsDigit(s[i])

\* cepRegex.MatchString: Go's `$` without the m flag matches only at the end
\* of the text, so the whole string must be NNNNN-NNN
MatchString(s) ==
    /\ Len(s) = CepDigitsBefore + 1 + CepDigitsAfter
    /\ \A i \in 1..CepDigitsBefore : IsDigit(s[i])
    /\ s[CepDigitsBefore + 1] = "-"
    /\ \A i \in (CepDigitsBefore + 2)..(CepDigitsBefore + 1 + CepDigitsAfter) : IsDigit(s[i])

WellFormedCeps == { <<"0", "1", "0", "0", "1", "-", "0", "0", "0">>,
                    <<"9", "9", "9", "9", "9", "-", "9", "9", "9">> }

Replace1(s) == { [s EXCEPT ![i] = c] : i \in 1..Len(s), c \in Alphabet }

Delete1(s) == { SubSeq(s, 1, i - 1) \o SubSeq(s, i + 1, Len(s)) : i \in 1..Len(s) }

Insert1(s) == { SubSeq(s, 1, i) \o <<c>> \o SubSeq(s, i + 1, Len(s)) :
                    i \in 0..Len(s), c \in Alphabet }

ShortStrings == UNION { [1..n -> Alphabet] : n \in 0..MaxShort }

\* the strings a client sends as a CEP: the empty string, short strings,
\* well-formed codes and everything one edit away from a well-formed code
CepInputs ==
    ShortStrings \cup WellFormedCeps
        \cup UNION { Replace1(s) \cup Delete1(s) \cup Insert1(s) : s \in WellFormedCeps }

(***************************************************************************)
(* Texts: messages, errors, URLs                                           *)
(***************************************************************************)
Contains(text, tok) == \E i \in 1..Len(text) : text[i] = tok

\* a nil error
NoErr == <<>>

StatusOK == 200

StatusBadRequest == 400

StatusNotFound == 404

StatusUnprocessableEntity == 422

StatusInternalServerError == 500

\* app2: InternalErrorMessage
InternalErrorMessage == <<"ocorreu um erro ao processar sua requisição">>

\* viacep.ErrCepNotFound, viacep.ErrInternal
ErrCepNotFound == <<"CEP não encontrado">>

ViaCepErrInternal == <<"ocorreu um erro interno ao buscar o CEP">>

\* weatherapi.ErrCityNotFound, weatherapi.ErrInternal
ErrCityNotFound == <<"cidade não encontrada">>

ErrInternal == <<"ocorreu um erro interno ao buscar o clima">>

\* the WEATHER_API_KEY the Orchestrator was started with (never empty: main
\* stops at startup when it is)
ApiKey == "fake-api-key"

ViaCepBaseURL == "https://viacep.com.br"

WeatherBaseURL == "https://api.weatherapi.com/v1"

\* causes of a failed round trip, as net/http reports them
TransportCauses == { "dial tcp: connection refused",
                     "context deadline exceeded (Client.Timeout exceeded while awaiting headers)" }

\* the text of the *url.Error that http.Client.Do returns: Op "URL": Err.
\* The URL is the request's URL; only a userinfo password is stripped from it.
UrlErrorText(op, url, cause) == <<op, " \"">> \o url \o <<"\": ", cause>>

\* what json.Decoder.Decode reports for a payload that is not the JSON expected
JsonSyntaxError == <<"invalid character 'x' looking for beginning of value">>

JsonTypeError == <<"json: cannot unmarshal value into Go struct field">>

JsonEOF == <<"unexpected EOF">>

(***************************************************************************)
(* Upstream outcomes                                                       *)
(***************************************************************************)
\* statuses an upstream API answers with (redirects are followed by the client)
UpstreamStatuses == {200, 201, 404, 500}

Cities == {"São Paulo", ""}

Temperatures == {2550, 0 - 500}

Fahrenheits == {7790, 2300}

\* ViaCEP payloads: not JSON at all, or an object whose "erro" member is
\* missing, a boolean, or (as newer ViaCEP versions send it) a string
AddrPayloads ==
    [syntax : {"malformed"}, erro : {"absent"}, localidade : {""}]
        \cup [syntax : {"ok"}, erro : {"absent", "true", "false", "string"}, localidade : Cities]

WeatherPayloads ==
    [syntax : {"malformed"}, temp_c : {0}, temp_f : {0}]
        \cup [syntax : {"ok"}, temp_c : Temperatures, temp_f : Fahrenheits]

NoPayload == [syntax |-> "none"]

\* no upstream call was made
NoUpstream == [transport |-> "none", cause |-> "", status |-> 0, payload |-> NoPayload]

Upstreams(payloads) ==
    [transport : {"fail"}, cause : TransportCauses, status : {0}, payload : {NoPayload}]
        \cup [transport : {"ok"}, cause : {""}, status : UpstreamStatuses, payload : payloads]

(***************************************************************************)
(* Telemetry                                                               *)
(***************************************************************************)
NoTelemetry == [attrs |-> {}, errors |-> {}, events |-> {}, logs |-> {}]

\* span.SetAttributes: a later value of a key replaces the earlier one
SetAttributes(attrs, kvs) ==
    { a \in attrs : \A kv \in kvs : kv[1] # a[1] } \cup kvs

Merge(t1, t2) ==
    [attrs |-> SetAttributes(t1.attrs, t2.attrs), errors |-> t1.errors \cup t2.errors,
     events |-> t1.events \cup t2.events, logs |-> t1.logs \cup t2.logs]

(***************************************************************************)
(* viacep.Client                                                           *)
(***************************************************************************)
NoAddress == [City |-> "", Erro |-> FALSE]

\* the decoding when the Erro field carries no `json:"erro"` tag match: the
\* flag is never set
DecodeViaCepWithoutErro(payload) ==
    IF payload.syntax # "ok" THEN [err |-> JsonSyntaxError, data |-> NoAddress]
    ELSE IF payload.erro = "string" THEN [err |-> JsonTypeError, data |-> NoAddress]
    ELSE [err |-> NoErr, data |-> [City |-> payload.localidade, Erro |-> FALSE]]

\* json.NewDecoder(resp.Body).Decode(&data) into ViaCepResponse; of its fields
\* only City (localidade) and Erro (erro) are ever read
DecodeViaCep(payload) ==
    IF payload.syntax # "ok" THEN [err |-> JsonSyntaxError, data |-> NoAddress]
    ELSE IF payload.erro = "string" THEN [err |-> JsonTypeError, data |-> NoAddress]
    ELSE [err |-> NoErr,
          data |-> [City |-> payload.localidade, Erro |-> payload.erro = "true"]]

ViaCepURL(cep) == <<ViaCepBaseURL, "/ws/">> \o cep \o <<"/json/">>

\* FindAddressByCep; building the request cannot fail for the fixed base URL
FindAddressByCep(cep, up) ==
    LET attrs0 == {<<"cep.value", cep>>}
        attrs1 == SetAttributes(attrs0, {<<"http.status_code", <<ToString(up.status)>>>>})
        doErr  == UrlErrorText("Get", ViaCepURL(cep), up.cause)
        dec    == DecodeViaCep(up.payload)
    IN  IF up.transport = "fail"
        THEN [data |-> NoAddress, err |-> ViaCepErrInternal,
              tel |-> [attrs |-> attrs0, errors |-> {doErr}, events |-> {},
                       logs |-> {<<"Error requesting from ViaCEP API: ">> \o doErr}]]
        ELSE IF up.status # StatusOK
        THEN [data |-> NoAddress, err |-> ErrCepNotFound,
              tel |-> [attrs |-> attrs1, errors |-> {},
                       events |-> {"ViaCEP API returned non-OK status"}, logs |-> {}]]
        ELSE IF dec.err # NoErr
        THEN [data |-> NoAddress, err |-> ViaCepErrInternal,
              tel |-> [attrs |-> attrs1, errors |-> {dec.err}, events |-> {},
                       logs |-> {<<"Error decoding ViaCEP API response: ">> \o dec.err}]]
        ELSE IF dec.data.Erro
        THEN [data |-> NoAddress, err |-> ErrCepNotFound,
              tel |-> [attrs |-> attrs1, errors |-> {},
                       events |-> {"ViaCEP API response indicates CEP not found (erro=true)"},
                       logs |-> {}]]
        ELSE [data |-> dec.data, err |-> NoErr,
              tel |-> [attrs |-> attrs1, errors |-> {}, events |-> {}, logs |-> {}]]

(***************************************************************************)
(* weatherapi.Client                                                       *)
(***************************************************************************)
NoWeather == [TempC |-> 0, TempF |-> 0]

\* the decoding with the two json tags exchanged
DecodeWeatherSwapped(payload) ==
    IF payload.syntax # "ok" THEN [err |-> JsonSyntaxError, data |-> NoWeather]
    ELSE [err |-> NoErr, data |-> [TempC |-> payload.temp_f, TempF |-> payload.temp_c]]

\* json.NewDecoder(resp.Body).Decode(&data) into WeatherApiResponse.Current
DecodeWeather(payload) ==
    IF payload.syntax # "ok" THEN [err |-> JsonSyntaxError, data |-> NoWeather]
    ELSE [err |-> NoErr, data |-> [TempC |-> payload.temp_c, TempF |-> payload.temp_f]]

\* baseURL.String() after params.Encode(): the parameters sorted by name.
\* The q token stands for the escaped city; nothing reads it back.
WeatherURL(apiKey, city) ==
    <<WeatherBaseURL, "/current.json", "?", "key=", apiKey, "&", "q=", city>>

\* req.URL.Query().Get(name)
QueryGet(url, name) ==
    IF \E i \in 1..(Len(url) - 1) : url[i] = name
    THEN url[(CHOOSE i \in 1..(Len(url) - 1) : url[i] = name) + 1]
    ELSE ""

\* newQuery.Set("key", "***"); sanitizedURL.RawQuery = newQuery.Encode()
SanitizedURL(url) ==
    [i \in 1..Len(url) |-> IF i > 1 /\ url[i - 1] = "key=" THEN "***" ELSE url[i]]

\* redactingTransport.RoundTrip: the attributes it sets on the request's span
\* before handing the unchanged request to the base transport
RoundTrip(url) ==
    IF QueryGet(url, "key=") # ""
    THEN {<<"http.url", SanitizedURL(url)>>, <<"url.full", SanitizedURL(url)>>}
    ELSE {}

\* FindTemperatureByCity; parsing the fixed base URL and building the request
\* cannot fail
FindTemperatureByCity(city, up) ==
    LET fullURL == WeatherURL(ApiKey, city)
        attrs0  == SetAttributes({<<"city.name", <<city>>>>}, RoundTrip(fullURL))
        doErr   == UrlErrorText("Get", fullURL, up.cause)
        dec     == DecodeWeather(up.payload)
    IN  IF up.transport = "fail"
        THEN [data |-> NoWeather, err |-> ErrInternal,
              tel |-> [attrs |-> attrs0, errors |-> {doErr}, events |-> {},
                       logs |-> {<<"Error requesting from WeatherAPI: ">> \o doErr}]]
        ELSE IF up.status # StatusOK
        THEN [data |-> NoWeather, err |-> ErrCityNotFound,
              tel |-> [attrs |-> attrs0, errors |-> {},
                       events |-> {"WeatherAPI returned non-OK status"}, logs |-> {}]]
        ELSE IF dec.err # NoErr
        THEN [data |-> NoWeather, err |-> ErrInternal,
              tel |-> [attrs |-> attrs0, errors |-> {dec.err}, events |-> {},
                       logs |-> {<<"Error decoding WeatherAPI response: ">> \o dec.err}]]
        ELSE [data |-> dec.data, err |-> NoErr,
              tel |-> [attrs |-> attrs0, errors |-> {}, events |-> {}, logs |-> {}]]

(***************************************************************************)
(* HTTP responses                                                          *)
(***************************************************************************)
NoJson == [none |-> TRUE]

NoResponse == [status |-> 0, ctype |-> "", text |-> <<>>, json |-> NoJson]

\* http.Error(w, text, status)
Error(text, status) ==
    [status |-> status, ctype |-> "text/plain", text |-> text, json |-> NoJson]

\* json.NewEncoder(w).Encode(obj) with Content-Type application/json
Json(status, obj) ==
    [status |-> status, ctype |-> "application/json", text |-> <<>>, json |-> obj]

(***************************************************************************)
(* Orchestrator (app2) handler                                             *)
(***************************************************************************)
\* 273.15, in hundredths of a degree
KelvinOffset == 27315

NoAddrRes == [called |-> FALSE, data |-> NoAddress, err |-> NoErr]

NoWeatherRes == [called |-> FALSE, data |-> NoWeather, err |-> NoErr]

Call(to, arg) == [to |-> to, arg |-> arg]

\* the Kelvin value taken from the Fahrenheit one: (F - 32) * 5/9 + 273.15
ComposeFromFahrenheit(address, weather) ==
    [city   |-> address.City,
     temp_C |-> weather.TempC,
     temp_F |-> weather.TempF,
     temp_K |-> ((weather.TempF - 3200) * 5) \div 9 + KelvinOffset]

\* the response struct of app2, encoded
Compose(address, weather) ==
    [city   |-> address.City,
     temp_C |-> weather.TempC,
     temp_F |-> weather.TempF,
     temp_K |-> weather.TempC + KelvinOffset]

\* the response to an error of FindAddressByCep
AddressErrorResponse(err) ==
    IF err = ErrCepNotFound
    THEN Error(ErrCepNotFound, StatusNotFound)
    ELSE Error(InternalErrorMessage, StatusInternalServerError)

\* a weather error handled like an address error: not-found becomes 404 and
\* the error's own text is the body
WeatherErrorAsAddress(err) ==
    IF err = ErrCityNotFound
    THEN Error(err, StatusNotFound)
    ELSE Error(err, StatusInternalServerError)

\* the response to an error of FindTemperatureByCity
WeatherErrorResponse(err) == Error(InternalErrorMessage, StatusInternalServerError)

\* the handler trying the Address Resolver a second time when it fails and
\* asking the Weather Resolver all the same
App2HandlerRetrying(cep, aUp, wUp) ==
    LET a == FindAddressByCep(cep, aUp)
        w == FindTemperatureByCity(a.data.City, wUp)
        aRes == [called |-> TRUE, data |-> a.data, err |-> a.err]
        wRes == [called |-> TRUE, data |-> w.data, err |-> w.err]
        aCall == Call("viacep", cep)
        wCall == Call("weatherapi", <<a.data.City>>)
    IN  IF cep = <<>>
        THEN [resp |-> Error(<<"parâmetro 'cep' é obrigatório">>, StatusBadRequest),
              addrRes |-> NoAddrRes, weatherRes |-> NoWeatherRes,
              calls |-> <<>>, tel |-> NoTelemetry]
        ELSE IF ~MatchString(cep)
        THEN [resp |-> Error(<<"inválid zipcode">>, StatusUnprocessableEntity),
              addrRes |-> NoAddrRes, weatherRes |-> NoWeatherRes,
              calls |-> <<>>, tel |-> NoTelemetry]
        ELSE IF a.err # NoErr
        THEN [resp |-> AddressErrorResponse(a.err),
              addrRes |-> aRes, weatherRes |-> NoWeatherRes,
              calls |-> <<aCall, aCall, wCall>>,
              tel |-> a.tel]
        ELSE IF w.err # NoErr
        THEN [resp |-> WeatherErrorResponse(w.err),
              addrRes |-> aRes, weatherRes |-> wRes,
              calls |-> <<aCall, wCall>>,
              tel |-> Merge(a.tel, w.tel)]
        ELSE [resp |-> Json(StatusOK, Compose(a.data, w.data)),
              addrRes |-> aRes, weatherRes |-> wRes,
              calls |-> <<aCall, wCall>>, tel |-> Merge(a.tel, w.tel)]

\* application.handler of app2 on the query parameter cep, given what the two
\* upstreams do when they are called
App2Handler(cep, aUp, wUp) ==
    LET a == FindAddressByCep(cep, aUp)
        w == FindTemperatureByCity(a.data.City, wUp)
        aRes == [called |-> TRUE, data |-> a.data, err |-> a.err]
        wRes == [called |-> TRUE, data |-> w.data, err |-> w.err]
        aCall == Call("viacep", cep)
        wCall == Call("weatherapi", <<a.data.City>>)
    IN  IF cep = <<>>
        THEN [resp |-> Error(<<"parâmetro 'cep' é obrigatório">>, StatusBadRequest),
              addrRes |-> NoAddrRes, weatherRes |-> NoWeatherRes,
              calls |-> <<>>, tel |-> NoTelemetry]
        ELSE IF ~MatchString(cep)
        THEN [resp |-> Error(<<"inválid zipcode">>, StatusUnprocessableEntity),
              addrRes |-> NoAddrRes, weatherRes |-> NoWeatherRes,
              calls |-> <<>>, tel |-> NoTelemetry]
        ELSE IF a.err # NoErr
        THEN [resp |-> AddressErrorResponse(a.err),
              addrRes |-> aRes, weatherRes |-> NoWeatherRes,
              calls |-> <<aCall>>,
              tel |-> IF a.err = ErrCepNotFound
                      THEN a.tel
                      ELSE Merge(a.tel, [NoTelemetry EXCEPT !.logs =
                                   {<<"Error can not find CEP: ">> \o a.err}])]
        ELSE IF w.err # NoErr
        THEN [resp |-> WeatherErrorResponse(w.err),
              addrRes |-> aRes, weatherRes |-> wRes,
              calls |-> <<aCall, wCall>>,
              tel |-> Merge(Merge(a.tel, w.tel), [NoTelemetry EXCEPT !.logs =
                          {<<"Internal error while fetching temperature for the city ",
                             a.data.City, ": ">> \o w.err}])]
        ELSE [resp |-> Json(StatusOK, Compose(a.data, w.data)),
              addrRes |-> aRes, weatherRes |-> wRes,
              calls |-> <<aCall, wCall>>, tel |-> Merge(a.tel, w.tel)]

(***************************************************************************)
(* Edge (app1) handler                                                     *)
(***************************************************************************)
\* request bodies: not JSON, or an object whose "cep" member is missing, a
\* number, or a string
EdgeBodies ==
    [syntax : {"malformed"}, cepType : {"absent"}, cep : {<<>>}]
        \cup [syntax : {"ok"}, cepType : {"absent", "number"}, cep : {<<>>}]
        \cup [syntax : {"ok"}, cepType : {"string"}, cep : CepInputs]

NoBody == [syntax |-> "none", cepType |-> "absent", cep |-> <<>>]

\* json.NewDecoder(r.Body).Decode(&req) into Request
DecodeRequest(body) ==
    IF body.syntax # "ok" THEN [err |-> JsonSyntaxError, Cep |-> <<>>]
    ELSE IF body.cepType = "number" THEN [err |-> JsonTypeError, Cep |-> <<>>]
    ELSE IF body.cepType = "absent" THEN [err |-> NoErr, Cep |-> <<>>]
    ELSE [err |-> NoErr, Cep |-> body.cep]

\* fmt.Sprintf("%s/get-weather-by-cep?cep=%s", APP2_BASE_URL, cep)
App2Endpoint(cep) == <<"APP2_BASE_URL", "/get-weather-by-cep", "?", "cep=">> \o cep

\* r.URL.Query().Get("cep") on the raw query value: '+' decodes to a space
QueryGetCep(raw) == [i \in 1..Len(raw) |-> IF raw[i] = "+" THEN " " ELSE raw[i]]

\* the handler with the pattern check left out: any non-empty cep is forwarded
App1RequestUnmatched(body, baseUrlOk) ==
    LET dec == DecodeRequest(body)
    IN  IF dec.err # NoErr
        THEN [send |-> FALSE, cep |-> dec.Cep, err |-> dec.err,
              resp |-> Error(dec.err, StatusBadRequest)]
        ELSE IF dec.Cep = <<>>
        THEN [send |-> FALSE, cep |-> dec.Cep, err |-> NoErr,
              resp |-> Error(<<"param 'cep' is required">>, StatusBadRequest)]
        ELSE IF ~baseUrlOk
        THEN [send |-> FALSE, cep |-> dec.Cep,
              err |-> <<"parse \"">> \o App2Endpoint(dec.Cep) \o <<"\": invalid URL">>,
              resp |-> Error(<<"fail create request to orchestrator service">>,
                             StatusInternalServerError)]
        ELSE [send |-> TRUE, cep |-> dec.Cep, err |-> NoErr, resp |-> NoResponse]

\* lines 134-170 of app1: validation and the request to the Orchestrator
App1Request(body, baseUrlOk) ==
    LET dec == DecodeRequest(body)
    IN  IF dec.err # NoErr
        THEN [send |-> FALSE, cep |-> dec.Cep, err |-> dec.err,
              resp |-> Error(dec.err, StatusBadRequest)]
        ELSE IF dec.Cep = <<>>
        THEN [send |-> FALSE, cep |-> dec.Cep, err |-> NoErr,
              resp |-> Error(<<"param 'cep' is required">>, StatusBadRequest)]
        ELSE IF ~MatchString(dec.Cep)
        THEN [send |-> FALSE, cep |-> dec.Cep, err |-> NoErr,
              resp |-> Error(<<"invalid zipcode">>, StatusUnprocessableEntity)]
        ELSE IF ~baseUrlOk
        THEN [send |-> FALSE, cep |-> dec.Cep,
              err |-> <<"parse \"">> \o App2Endpoint(dec.Cep) \o <<"\": invalid URL">>,
              resp |-> Error(<<"fail create request to orchestrator service">>,
                             StatusInternalServerError)]
        ELSE [send |-> TRUE, cep |-> dec.Cep, err |-> NoErr, resp |-> NoResponse]

\* the Response struct with its fourth tag misspelt as temp_k and matched
\* exactly
DecodeResponseMisspelt(obj) ==
    [City  |-> IF "city" \in DOMAIN obj THEN obj["city"] ELSE "",
     TempC |-> IF "temp_C" \in DOMAIN obj THEN obj["temp_C"] ELSE 0,
     TempF |-> IF "temp_F" \in DOMAIN obj THEN obj["temp_F"] ELSE 0,
     TempK |-> IF "temp_k" \in DOMAIN obj THEN obj["temp_k"] ELSE 0]

\* the Response struct of app1, decoded from a JSON object: members are
\* matched by name, unknown members are dropped, missing ones stay zero
DecodeResponse(obj) ==
    [City  |-> IF "city" \in DOMAIN obj THEN obj["city"] ELSE "",
     TempC |-> IF "temp_C" \in DOMAIN obj THEN obj["temp_C"] ELSE 0,
     TempF |-> IF "temp_F" \in DOMAIN obj THEN obj["temp_F"] ELSE 0,
     TempK |-> IF "temp_K" \in DOMAIN obj THEN obj["temp_K"] ELSE 0]

EncodeResponse(r) ==
    [city |-> r.City, temp_C |-> r.TempC, temp_F |-> r.TempF, temp_K |-> r.TempK]

\* lines 170-199 of app1 when httpClient.Do failed with the given cause
App1TransportError(cep, cause) ==
    LET err == UrlErrorText("Get", App2Endpoint(cep), cause)
    IN  [err |-> err, resp |-> Error(err, StatusInternalServerError)]

\* the handler answering every downstream status from 400 up, 404 apart,
\* with its own 500
App1ResponseAs500(response, truncated) ==
    IF response.status = StatusNotFound
    THEN [err |-> NoErr, resp |-> Error(<<"can not find zipcode">>, StatusNotFound)]
    ELSE IF response.status >= StatusBadRequest
    THEN [err |-> NoErr,
          resp |-> Error(<<"error on find weather in orchestrator service">>,
                         StatusInternalServerError)]
    ELSE IF truncated
    THEN [err |-> JsonEOF, resp |-> Error(JsonEOF, StatusInternalServerError)]
    ELSE IF response.ctype # "application/json"
    THEN [err |-> JsonSyntaxError,
          resp |-> Error(JsonSyntaxError, StatusInternalServerError)]
    ELSE [err |-> NoErr,
          resp |-> Json(StatusOK, EncodeResponse(DecodeResponse(response.json)))]

\* lines 176-199 of app1 on the Orchestrator's response; truncated: the body
\* ends before the JSON value does
App1Response(response, truncated) ==
    IF response.status = StatusNotFound
    THEN [err |-> NoErr, resp |-> Error(<<"can not find zipcode">>, StatusNotFound)]
    ELSE IF response.status >= StatusBadRequest
    THEN [err |-> NoErr,
          resp |-> Error(<<"error on find weather in orchestrator service">>,
                         response.status)]
    ELSE IF truncated
    THEN [err |-> JsonEOF, resp |-> Error(JsonEOF, StatusInternalServerError)]
    ELSE IF response.ctype # "application/json"
    THEN [err |-> JsonSyntaxError,
          resp |-> Error(JsonSyntaxError, StatusInternalServerError)]
    ELSE [err |-> NoErr,
          resp |-> Json(StatusOK, EncodeResponse(DecodeResponse(response.json)))]

(***************************************************************************)
(* The state machine: one request at a time, either through the Edge or    *)
(* sent to the Orchestrator directly                                       *)
(***************************************************************************)
NoWire == [kind |-> "none", rawQuery |-> <<>>, resp |-> NoResponse]

\* statuses with which the HTTP layer that APP2_BASE_URL points at (a reverse
\* proxy, a load balancer) answers by itself when it cannot serve the request
GatewayStatuses == {502, 503}

(***************************************************************************)
(* The two processes: main() of app1 and of app2                           *)
(***************************************************************************)
Services == {"app1", "app2"}

\* requests a server is handling at once
MaxInflight == 2

\* context.WithTimeout(context.Background(), 5*time.Second) for server.Shutdown
ShutdownGrace == 5

\* context.WithTimeout(context.Background(), 10*time.Second) for the
\* telemetry shutdown
TelemetryGrace == 10

\* main() has not run yet; exit is -1 while the process lives
ProcStart ==
    [pc |-> "init", inflight |-> 0, accepting |-> FALSE, signalled |-> FALSE,
     graceLeft |-> 0, telemetryLeft |-> 0, serverStopped |-> FALSE,
     telemetry |-> "none", exit |-> 0 - 1]

\* what stops main() before it waits for a signal: InitTelemetry fails, the
\* WEATHER_API_KEY is missing (app2 only), ListenAndServe fails
StartFailures(s) ==
    {"telemetry", "listen"} \cup (IF s = "app2" THEN {"apikey"} ELSE {})

NoGot == [resp |-> NoResponse, truncated |-> FALSE]

Init ==
    /\ pc = "idle"
    /\ edgeReq = NoBody
    /\ edgeResp = NoResponse
    /\ edgeErr = NoErr
    /\ edgeGot = NoGot
    /\ wire = NoWire
    /\ orchCep = <<>>
    /\ orchResp = NoResponse
    /\ addrUp = NoUpstream
    /\ addrRes = NoAddrRes
    /\ weatherUp = NoUpstream
    /\ weatherRes = NoWeatherRes
    /\ calls = <<>>
    /\ telemetry = NoTelemetry
    /\ app2BaseUrlOk \in BOOLEAN
    /\ procs = [s \in Services |-> ProcStart]

\* the upstreams the Orchestrator handler reaches on cep: ViaCEP when the cep
\* is valid, WeatherAPI when FindAddressByCep returned an address
AddrUpstreams(cep) ==
    IF MatchString(cep) THEN Upstreams(AddrPayloads) ELSE {NoUpstream}

WeatherUpstreams(cep, aUp) ==
    IF MatchString(cep) /\ FindAddressByCep(cep, aUp).err = NoErr
    THEN Upstreams(WeatherPayloads)
    ELSE {NoUpstream}

\* the Orchestrator handler runs on cep, whatever the upstreams it calls do
RunApp2(cep) ==
    \E aUp \in AddrUpstreams(cep) : \E wUp \in WeatherUpstreams(cep, aUp) :
        LET h == App2Handler(cep, aUp, wUp)
        IN  /\ orchCep' = cep
            /\ orchResp' = h.resp
            /\ addrUp' = aUp
            /\ addrRes' = h.addrRes
            /\ weatherUp' = wUp
            /\ weatherRes' = h.weatherRes
            /\ calls' = calls \o h.calls
            /\ telemetry' = h.tel

\* a client posts a body to the Edge: app1 handler up to httpClient.Do
EdgeRequest(body) ==
    /\ pc = "idle"
    /\ UNCHANGED procs
    /\ LET r == App1Request(body, app2BaseUrlOk)
       IN  /\ edgeReq' = body
           /\ edgeErr' = r.err
           /\ edgeResp' = r.resp
           /\ edgeGot' = NoGot
           /\ pc' = IF r.send THEN "edge_sent" ELSE "done"
           /\ wire' = IF r.send
                      THEN [kind |-> "request", rawQuery |-> r.cep, resp |-> NoResponse]
                      ELSE NoWire
           /\ calls' = IF r.send THEN <<Call("orchestrator", r.cep)>> ELSE <<>>
    /\ orchCep' = <<>>
    /\ orchResp' = NoResponse
    /\ addrUp' = NoUpstream
    /\ addrRes' = NoAddrRes
    /\ weatherUp' = NoUpstream
    /\ weatherRes' = NoWeatherRes
    /\ telemetry' = NoTelemetry
    /\ UNCHANGED app2BaseUrlOk

\* the Orchestrator serves the request the Edge forwarded
OrchServe ==
    /\ pc = "edge_sent"
    /\ UNCHANGED procs
    /\ wire.kind = "request"
    /\ RunApp2(QueryGetCep(wire.rawQuery))
    /\ wire' = [kind |-> "response", rawQuery |-> <<>>, resp |-> orchResp']
    /\ pc' = "edge_reply"
    /\ UNCHANGED <<edgeReq, edgeResp, edgeErr, edgeGot, app2BaseUrlOk>>

\* the HTTP layer in front of the Orchestrator answers instead of it
GatewayReply(status) ==
    /\ pc = "edge_sent"
    /\ UNCHANGED procs
    /\ wire.kind = "request"
    /\ wire' = [kind |-> "response", rawQuery |-> <<>>,
                resp |-> Error(<<"upstream unavailable">>, status)]
    /\ pc' = "edge_reply"
    /\ UNCHANGED <<edgeReq, edgeResp, edgeErr, edgeGot, orchCep, orchResp, addrUp, addrRes,
                   weatherUp, weatherRes, calls, telemetry, app2BaseUrlOk>>

\* httpClient.Do of the Edge fails: no connection, or the 10 s client timeout
\* or the 5 s request deadline passes before the response headers arrive
EdgeTransportError(cause) ==
    /\ pc \in {"edge_sent", "edge_reply"}
    /\ UNCHANGED procs
    /\ LET r == App1TransportError(DecodeRequest(edgeReq).Cep, cause)
       IN  /\ edgeErr' = r.err
           /\ edgeResp' = r.resp
    /\ wire' = NoWire
    /\ pc' = "done"
    /\ UNCHANGED <<edgeReq, edgeGot, orchCep, orchResp, addrUp, addrRes, weatherUp,
                   weatherRes, calls, telemetry, app2BaseUrlOk>>

\* the response reaches the Edge: app1 handler after httpClient.Do
EdgeResponse(truncated) ==
    /\ pc = "edge_reply"
    /\ UNCHANGED procs
    /\ wire.kind = "response"
    /\ LET r == App1Response(wire.resp, truncated)
       IN  /\ edgeErr' = r.err
           /\ edgeResp' = r.resp
    /\ edgeGot' = [resp |-> wire.resp, truncated |-> truncated]
    /\ wire' = NoWire
    /\ pc' = "done"
    /\ UNCHANGED <<edgeReq, orchCep, orchResp, addrUp, addrRes, weatherUp,
                   weatherRes, calls, telemetry, app2BaseUrlOk>>

\* a client calls the Orchestrator directly with a cep query parameter
OrchDirect(cep) ==
    /\ pc = "idle"
    /\ UNCHANGED procs
    /\ RunApp2(cep)
    /\ edgeReq' = NoBody
    /\ edgeResp' = NoResponse
    /\ edgeErr' = NoErr
    /\ edgeGot' = NoGot
    /\ wire' = NoWire
    /\ pc' = "done"
    /\ UNCHANGED app2BaseUrlOk

\* the handler has returned and the response is written: nothing of the
\* request outlives it
Finish ==
    /\ pc = "done"
    /\ UNCHANGED procs
    /\ pc' = "idle"
    /\ edgeReq' = NoBody
    /\ edgeResp' = NoResponse
    /\ edgeErr' = NoErr
    /\ edgeGot' = NoGot
    /\ wire' = NoWire
    /\ orchCep' = <<>>
    /\ orchResp' = NoResponse
    /\ addrUp' = NoUpstream
    /\ addrRes' = NoAddrRes
    /\ weatherUp' = NoUpstream
    /\ weatherRes' = NoWeatherRes
    /\ calls' = <<>>
    /\ telemetry' = NoTelemetry
    /\ UNCHANGED app2BaseUrlOk

Next ==
    \/ \E body \in EdgeBodies : EdgeRequest(body)
    \/ OrchServe
    \/ \E status \in GatewayStatuses : GatewayReply(status)
    \/ \E cause \in TransportCauses : EdgeTransportError(cause)
    \/ \E truncated \in BOOLEAN : EdgeResponse(truncated)
    \/ \E cep \in CepInputs : OrchDirect(cep)
    \/ Finish

Spec == Init /\ [][Next]_vars

(***************************************************************************)
(* main() of each service, from start to process exit                      *)
(***************************************************************************)
reqVars == <<pc, edgeReq, edgeResp, edgeErr, edgeGot, wire, orchCep, orchResp,
             addrUp, addrRes, weatherUp, weatherRes, calls, telemetry, app2BaseUrlOk>>

\* log.Fatalf / log.Fatal: os.Exit(1) at once, deferred functions do not run
Fatal(p) == [p EXCEPT !.pc = "exited", !.exit = 1, !.accepting = FALSE]

\* main() up to `<-stop`: telemetry is initialised, its shutdown is deferred,
\* the server listens
Start(s) ==
    /\ procs[s].pc = "init"
    /\ procs' = [procs EXCEPT ![s] = [@ EXCEPT !.pc = "serving", !.telemetry = "up",
                                                 !.accepting = TRUE]]
    /\ UNCHANGED reqVars

\* main() stops with log.Fatalf before it waits for a signal
StartFatal(s, why) ==
    /\ procs[s].pc = "init"
    /\ procs' = [procs EXCEPT ![s] =
                    Fatal([@ EXCEPT !.telemetry = IF why = "telemetry" THEN "none" ELSE "up"])]
    /\ UNCHANGED reqVars

\* the server takes a request: a handler goroutine starts
Accept(s) ==
    /\ procs[s].pc = "serving"
    /\ procs[s].accepting
    /\ procs[s].inflight < MaxInflight
    /\ procs' = [procs EXCEPT ![s].inflight = @ + 1]
    /\ UNCHANGED reqVars

\* a handler returns
Complete(s) ==
    /\ procs[s].pc \in {"serving", "shutdown"}
    /\ procs[s].inflight > 0
    /\ procs' = [procs EXCEPT ![s].inflight = @ - 1]
    /\ UNCHANGED reqVars

\* SIGINT or SIGTERM arrives on stop: main() calls server.Shutdown(shutdownCtx),
\* which closes the listeners first
Signal(s) ==
    /\ procs[s].pc = "serving"
    /\ procs' = [procs EXCEPT ![s] = [@ EXCEPT !.pc = "shutdown", !.signalled = TRUE,
                                                 !.accepting = FALSE,
                                                 !.graceLeft = ShutdownGrace]]
    /\ UNCHANGED reqVars

\* a second passes while a context with a timeout is running
Tick(s) ==
    /\ \/ /\ procs[s].pc = "shutdown"
          /\ procs[s].graceLeft > 0
          /\ procs' = [procs EXCEPT ![s].graceLeft = @ - 1]
       \/ /\ procs[s].pc = "telemetry"
          /\ procs[s].telemetryLeft > 0
          /\ procs' = [procs EXCEPT ![s].telemetryLeft = @ - 1]
    /\ UNCHANGED reqVars

\* server.Shutdown returns nil: no request is in flight. main() returns and
\* its deferred function starts the telemetry shutdown with its own timeout
ShutdownReturns(s) ==
    /\ procs[s].pc = "shutdown"
    /\ procs[s].inflight = 0
    /\ procs' = [procs EXCEPT ![s] = [@ EXCEPT !.pc = "telemetry", !.serverStopped = TRUE,
                                                 !.telemetryLeft = TelemetryGrace]]
    /\ UNCHANGED reqVars

\* server.Shutdown returns the context's error: requests are still in flight
\* when the grace period ends, and main() calls log.Fatalf
ShutdownExpires(s) ==
    /\ procs[s].pc = "shutdown"
    /\ procs[s].graceLeft = 0
    /\ procs[s].inflight > 0
    /\ procs' = [procs EXCEPT ![s] = Fatal(@)]
    /\ UNCHANGED reqVars

\* the deferred shutdown(ctx) returns, with or without an error, within its
\* timeout; main() is over and the process exits with status 0
TelemetryShutdown(s) ==
    /\ procs[s].pc = "telemetry"
    /\ procs' = [procs EXCEPT ![s] = [@ EXCEPT !.pc = "exited", !.telemetry = "down",
                                                 !.exit = 0]]
    /\ UNCHANGED reqVars

LifecycleNext ==
    \E s \in Services :
        \/ Start(s)
        \/ \E why \in StartFailures(s) : StartFatal(s, why)
        \/ Accept(s)
        \/ Complete(s)
        \/ Signal(s)
        \/ Tick(s)
        \/ ShutdownReturns(s)
        \/ ShutdownExpires(s)
        \/ TelemetryShutdown(s)

LifecycleSpec == Init /\ [][LifecycleNext]_vars

(***************************************************************************)
(* Properties                                                              *)
(***************************************************************************)
\* the postal-code shape NNNNN-NNN, stated position by position
CepShape(s) ==
    /\ Len(s) = 9
    /\ \A i \in 1..9 :
          IF i = 6 THEN s[i] = "-"
          ELSE s[i] \in {"0", "1", "2", "3", "4", "5", "6", "7", "8", "9"}

\* the status validation gives a string: 400 when empty, 422 when non-empty
\* and not of the shape, neither of them when of the shape
Classified(cep, status) ==
    /\ cep = <<>> => status = 400
    /\ (cep # <<>> /\ ~CepShape(cep)) => status = 422
    /\ CepShape(cep) => status \notin {400, 422}

\* the Edge decoded the body of the request in progress
EdgeDecoded == edgeReq # NoBody /\ DecodeRequest(edgeReq).err = NoErr

\* C1: in both services the empty cep is rejected with 400, every non-empty
\* cep that is not exactly NNNNN-NNN is rejected with 422, and only a cep of
\* exactly that shape passes validation.
C1_ValidationClassifies ==
    /\ EdgeDecoded => Classified(DecodeRequest(edgeReq).Cep, edgeResp.status)
    /\ (EdgeDecoded /\ ~CepShape(DecodeRequest(edgeReq).Cep)) => pc = "done"
    /\ orchResp # NoResponse => Classified(orchCep, orchResp.status)

\* a well-formed cep followed by one more digit reached the Orchestrator
\* handler and was rejected as unprocessable
C1_Witness ==
    /\ orchResp.status = 422
    /\ Len(orchCep) = 10
    /\ CepShape(SubSeq(orchCep, 1, 9))
    /\ orchCep[10] \in Digits

AnyToken(texts, tok) == \E t \in texts : Contains(t, tok)

\* C2: nothing the Weather Resolver records or returns contains the literal
\* API key: no span attribute, no error recorded on a span, no log line, no
\* returned error.
C2_NoCredentialExposed ==
    weatherRes.called =>
        /\ \A a \in telemetry.attrs : ~Contains(a[2], ApiKey)
        /\ ~AnyToken(telemetry.errors, ApiKey)
        /\ ~AnyToken(telemetry.logs, ApiKey)
        /\ ~Contains(weatherRes.err, ApiKey)

\* the tokens of a text
Tokens(text) == { text[i] : i \in 1..Len(text) }

\* the body shares no token with any error recorded or returned underneath
NoCauseIn(body, errs) == \A e \in errs : Tokens(e) \cap Tokens(body) = {}

\* C3: in the Orchestrator, a not-found error of the Address Resolver gives
\* 404 with the not-found message; any other Address Resolver error and every
\* Weather Resolver error (its not-found error too) gives 500 with the fixed
\* generic message and nothing of the underlying cause.
C3_OrchestratorErrorTranslation ==
    /\ (addrRes.called /\ addrRes.err = <<"CEP não encontrado">>) =>
           /\ orchResp.status = 404
           /\ orchResp.text = <<"CEP não encontrado">>
    /\ (addrRes.called /\ addrRes.err \notin {NoErr, <<"CEP não encontrado">>}) =>
           /\ orchResp.status = 500
           /\ orchResp.text = <<"ocorreu um erro ao processar sua requisição">>
           /\ NoCauseIn(orchResp.text, {addrRes.err} \cup telemetry.errors)
    /\ (weatherRes.called /\ weatherRes.err # NoErr) =>
           /\ orchResp.status = 500
           /\ orchResp.text = <<"ocorreu um erro ao processar sua requisição">>
           /\ NoCauseIn(orchResp.text, {weatherRes.err} \cup telemetry.errors)

\* the Weather Resolver returned its not-found error for a resolved city and
\* the Orchestrator answered
C3_Witness ==
    /\ weatherRes.called
    /\ weatherRes.err = ErrCityNotFound
    /\ orchResp.status = 500

Is2xx(status) == status >= 200 /\ status <= 299

\* a ViaCEP payload that does not decode into ViaCepResponse
AddrUndecodable(payload) == payload.syntax # "ok" \/ payload.erro = "string"

\* the Address Resolver's result for an upstream outcome, where `ok` says
\* which statuses count as a success
AddrClassified(ok(_)) ==
    addrRes.called =>
        IF addrUp.transport = "fail"
        THEN addrRes.err = <<"ocorreu um erro interno ao buscar o CEP">>
        ELSE IF ~ok(addrUp.status)
        THEN addrRes.err = <<"CEP não encontrado">>
        ELSE IF AddrUndecodable(addrUp.payload)
        THEN addrRes.err = <<"ocorreu um erro interno ao buscar o CEP">>
        ELSE IF addrUp.payload.erro = "true"
        THEN addrRes.err = <<"CEP não encontrado">>
        ELSE /\ addrRes.err = NoErr
             /\ addrRes.data.City = addrUp.payload.localidade

IsOK(status) == status = 200

\* C4 as stated: transport failure gives InternalError, any non-2xx status
\* NotFoundError, a 2xx status with an undecodable payload InternalError, a
\* 2xx status with erro=true NotFoundError, every other 2xx response the
\* decoded Address.
C4_AddressClassification2xx == AddrClassified(Is2xx)

\* C4 amended: transport failure gives InternalError, any status other than
\* 200 NotFoundError, status 200 with an undecodable payload InternalError,
\* status 200 with erro=true NotFoundError, every other 200 response the
\* decoded Address; status and erro flag are each sufficient for not-found.
C4_AddressClassification200 == AddrClassified(IsOK)

\* status 200 with a payload that decodes and carries erro=true: the flag
\* alone made the Address Resolver return not-found
C4_Witness ==
    /\ addrRes.called
    /\ addrUp.transport = "ok"
    /\ addrUp.status = 200
    /\ addrUp.payload.syntax = "ok"
    /\ addrUp.payload.erro = "true"
    /\ addrRes.err = ErrCepNotFound

\* the Weather Resolver's result for an upstream outcome, where `ok` says
\* which statuses count as a success
WeatherClassified(ok(_)) ==
    weatherRes.called =>
        /\ weatherRes.err \in {NoErr, <<"cidade não encontrada">>,
                               <<"ocorreu um erro interno ao buscar o clima">>}
        /\ IF weatherUp.transport = "fail"
           THEN weatherRes.err = <<"ocorreu um erro interno ao buscar o clima">>
           ELSE IF ~ok(weatherUp.status)
           THEN weatherRes.err = <<"cidade não encontrada">>
           ELSE IF weatherUp.payload.syntax # "ok"
           THEN weatherRes.err = <<"ocorreu um erro interno ao buscar o clima">>
           ELSE /\ weatherRes.err = NoErr
                /\ weatherRes.data.TempC = weatherUp.payload.temp_c
                /\ weatherRes.data.TempF = weatherUp.payload.temp_f

\* C5 as stated: FindTemperatureByCity returns InternalError on transport
\* failure, NotFoundError on any non-2xx status, InternalError on a 2xx
\* response that does not decode, otherwise the decoded temperatures, and no
\* other error value.
C5_WeatherClassification2xx == WeatherClassified(Is2xx)

\* C5 amended: InternalError on transport failure, NotFoundError on any
\* status other than 200, InternalError on a 200 response that does not
\* decode, otherwise the decoded temperatures, and no other error value.
C5_WeatherClassification200 == WeatherClassified(IsOK)

\* a 200 response decoded into temperatures whose two values differ
C5_Witness ==
    /\ weatherRes.called
    /\ weatherUp.transport = "ok"
    /\ weatherUp.status = 200
    /\ weatherUp.payload.syntax = "ok"
    /\ weatherRes.err = NoErr
    /\ weatherRes.data.TempC = 2550
    /\ weatherRes.data.TempF = 7790

\* the Edge handler has answered a request whose response it got from
\* httpClient.Do
EdgeAnswered == pc = "done" /\ edgeGot.resp # NoResponse

\* C6 as stated: every Edge response has a status in {200, 400, 422, 404,
\* 500}; an Orchestrator response with status 404 gives Edge status 404 and
\* one with any other status from 400 up gives Edge status 500.
C6_EdgeStatusAlways500 ==
    /\ (pc = "done" /\ edgeReq # NoBody) => edgeResp.status \in {200, 400, 422, 404, 500}
    /\ (EdgeAnswered /\ edgeGot.resp.status = 404) => edgeResp.status = 404
    /\ (EdgeAnswered /\ edgeGot.resp.status >= 400 /\ edgeGot.resp.status # 404) =>
           edgeResp.status = 500

\* C6 amended: every Edge response has a status in {200, 400, 422, 404, 500}
\* or the status the Orchestrator answered with; an Orchestrator response
\* with status 404 gives Edge status 404 and one with any other status from
\* 400 up gives that same status.
C6_EdgeStatusForwarded ==
    /\ (pc = "done" /\ edgeReq # NoBody) =>
           edgeResp.status \in {200, 400, 422, 404, 500} \cup {edgeGot.resp.status}
    /\ (EdgeAnswered /\ edgeGot.resp.status = 404) => edgeResp.status = 404
    /\ (EdgeAnswered /\ edgeGot.resp.status >= 400 /\ edgeGot.resp.status # 404) =>
           edgeResp.status = edgeGot.resp.status

\* the Edge answered a downstream status from 400 up that is neither 404 nor
\* 500
C6_Witness ==
    /\ EdgeAnswered
    /\ edgeGot.resp.status >= 400
    /\ edgeGot.resp.status \notin {404, 500}

\* C7: when the Edge's call to the Orchestrator fails in transport or the
\* success body does not decode, the Edge answers 500 with a generic message
\* that has nothing of the underlying error text in it.
C7_EdgeHidesFailureDetail ==
    (pc = "done" /\ calls # <<>> /\ calls[1].to = "orchestrator" /\ edgeErr # NoErr) =>
        /\ edgeResp.status = 500
        /\ NoCauseIn(edgeResp.text, {edgeErr})

\* C8: every cep passed to the Address Resolver and every cep forwarded to
\* the Orchestrator is of the shape NNNNN-NNN, and a request that fails
\* validation makes no outbound call.
C8_OnlyValidatedCepLeaves ==
    /\ \A i \in 1..Len(calls) :
          calls[i].to \in {"orchestrator", "viacep"} => CepShape(calls[i].arg)
    /\ (EdgeDecoded /\ ~CepShape(DecodeRequest(edgeReq).Cep)) => calls = <<>>
    /\ (edgeReq # NoBody /\ ~EdgeDecoded) => calls = <<>>
    /\ (orchResp # NoResponse /\ ~CepShape(orchCep)) => calls = <<>>

\* a cep went from the Edge to the Orchestrator and on to the Address Resolver
C8_Witness ==
    /\ Len(calls) >= 2
    /\ calls[1].to = "orchestrator"
    /\ calls[2].to = "viacep"
    /\ calls[2].arg = calls[1].arg

\* C9: when both resolvers succeed the Orchestrator answers 200 with the
\* Address Resolver's city, the Weather Resolver's temp_C and temp_F, and
\* temp_K = temp_C + 273.15 (25.5 gives 298.65), whatever temp_F is.
C9_UnifiedResponse ==
    (addrRes.called /\ addrRes.err = NoErr /\ weatherRes.called /\ weatherRes.err = NoErr) =>
        /\ orchResp.status = 200
        /\ orchResp.json.city = addrUp.payload.localidade
        /\ orchResp.json.temp_C = weatherUp.payload.temp_c
        /\ orchResp.json.temp_F = weatherUp.payload.temp_f
        /\ orchResp.json.temp_K = weatherUp.payload.temp_c + 27315
        /\ weatherUp.payload.temp_c = 2550 => orchResp.json.temp_K = 29865

\* 25.5 degrees Celsius answered together with a Fahrenheit value that is
\* not its equivalent
C9_Witness ==
    /\ orchResp.status = 200
    /\ orchResp.json.temp_C = 2550
    /\ orchResp.json.temp_F = 2300
    /\ orchResp.json.temp_K = 29865

\* C10: on an Orchestrator response below 400 whose body arrived whole, the
\* Edge answers 200 with a JSON body equal to the one it received.
C10_BodyUnchanged ==
    (EdgeAnswered /\ edgeGot.resp.status < 400 /\ ~edgeGot.truncated) =>
        /\ edgeResp.status = 200
        /\ edgeResp.ctype = "application/json"
        /\ edgeResp.json = edgeGot.resp.json
        /\ edgeResp.json = orchResp.json

\* the Edge re-emitted a body with a non-zero Kelvin value
C10_Witness ==
    /\ EdgeAnswered
    /\ edgeGot.resp.status = 200
    /\ edgeResp.status = 200
    /\ edgeResp.json.temp_K = 29865
    /\ edgeResp.json.city = "São Paulo"

\* how many outbound calls of the request in progress went to `to`
CallsTo(to) == Cardinality({ i \in 1..Len(calls) : calls[i].to = to })

\* C11: within one request the Address Resolver is called at most once, the
\* Weather Resolver at most once, right after the Address Resolver returned
\* an address and with exactly that address's city; a resolver that failed
\* made the last outbound call of the request; the Edge calls the
\* Orchestrator at most once, before anything else.
C11_SequentialNoRetry ==
    /\ CallsTo("viacep") <= 1
    /\ CallsTo("weatherapi") <= 1
    /\ CallsTo("orchestrator") <= 1
    /\ CallsTo("viacep") = (IF addrRes.called THEN 1 ELSE 0)
    /\ CallsTo("weatherapi") = (IF weatherRes.called THEN 1 ELSE 0)
    /\ \A i \in 1..Len(calls) :
          /\ calls[i].to = "orchestrator" => i = 1
          /\ calls[i].to = "weatherapi" =>
                /\ i > 1
                /\ calls[i - 1].to = "viacep"
                /\ addrRes.err = NoErr
                /\ addrUp.transport = "ok"
                /\ calls[i].arg = <<addrUp.payload.localidade>>
    /\ (addrRes.called /\ addrRes.err # NoErr) => calls[Len(calls)].to = "viacep"
    /\ (weatherRes.called /\ weatherRes.err # NoErr) => calls[Len(calls)].to = "weatherapi"

\* a request went through the Edge, the Address Resolver and the Weather
\* Resolver, which failed for the city São Paulo
C11_Witness ==
    /\ Len(calls) = 3
    /\ calls[1].to = "orchestrator"
    /\ calls[2].to = "viacep"
    /\ calls[3] = Call("weatherapi", <<"São Paulo">>)
    /\ weatherRes.err # NoErr
    /\ pc = "done"

\* C12: in both services a process that exits after SIGINT/SIGTERM has first
\* stopped its HTTP server within the grace period and then, with the server
\* stopped, shut its telemetry down, on every path to the exit.
C12_TelemetryShutdownOnEveryExit ==
    \A s \in Services :
        /\ procs[s].telemetry = "down" => procs[s].serverStopped
        /\ procs[s].pc = "telemetry" => (procs[s].serverStopped /\ procs[s].inflight = 0)
        /\ (procs[s].pc = "exited" /\ procs[s].signalled) =>
               /\ procs[s].serverStopped
               /\ procs[s].telemetry = "down"

====
